---------------------------- MODULE Spec2Model ----------------------------
(***************************************************************************)
(* Framely: the client-side response cache (store/useAppStore.ts,          *)
(* fetchMovieData) and the backend aggregation handlers                    *)
(* (server/server.ts and the serverless browse handler): list fan-out,     *)
(* detail enrichment, retry wrapper.                                       *)
(*                                                                         *)
(* Several specifications share this module.  StoreSpec runs the client    *)
(* cache against a backend that answers each GET /api/movies/homepage with *)
(* any body or failure; ServerSpec runs one backend request through a      *)
(* handler against an upstream (TMDB) that answers every attempt with a    *)
(* list, a detail record or an error; RetrySpec runs one call of the retry *)
(* wrapper around a request function with a given sequence of outcomes;    *)
(* ProxySpec runs one request of the browser code, through the tmdb axios  *)
(* instance and the backend passthrough or straight to TMDB.               *)
(* StoreFairSpec is StoreSpec with every backend request settling;         *)
(* TrailerSpec, HoverSpec and ListSpec run the store's trailer cache, the  *)
(* hover state of the cards and My List.                                   *)
(***************************************************************************)
EXTENDS Integers, Sequences, FiniteSets, TLC

VARIABLES
    \* ---- client store (useAppStore) ----
    movieData,          \* state.movieData : bucket name -> sequence of items
    movieDataLoading,   \* state.movieDataLoading
    movieDataError,     \* state.movieDataError ("null" or an error value)
    lastFetched,        \* state.lastFetched (0 stands for null, see NullTime)
    now,                \* Date.now()
    ticks,              \* number of clock steps taken so far
    pending,            \* ids of the axios.get(/api/movies/homepage) calls in flight
    nextReq,            \* number of backend requests issued so far
    refreshBase,        \* movieData as it was when the running refresh started
    lastEvent,          \* the last store step, with the state it found
    \* ---- backend handler (one request) ----
    srv,                \* the handler's state, see ServerIdle
    \* ---- retry wrapper (one call) ----
    rt,                 \* the state of one retryAxiosRequest call, see RetryIdle
    \* ---- client request layer and passthrough (one request) ----
    px,                 \* a browser request on its way, see ClientIdle
    \* ---- client store: interface state ----
    trailerCache,       \* state.trailerCache : title id -> video id or null
    hoveredMovieId,     \* state.hoveredMovieId (0 stands for null, see NullId)
    mounted,            \* the MovieCard components on the page
    pointer,            \* the card the mouse pointer is over, 0 for none
    hoverTimeout,       \* the cards whose hoverTimeout timer is pending
    isDesktop,          \* MovieCard's isDesktop (window width at mount)
    myList,             \* state.myList : sequence of titles
    listEvent           \* the last My List call, with the list it found

storeVars == <<movieData, movieDataLoading, movieDataError, lastFetched, now,
               ticks, pending, nextReq, refreshBase, lastEvent>>
uiVars == <<trailerCache, hoveredMovieId, mounted, pointer, hoverTimeout,
            isDesktop, myList, listEvent>>
vars == <<storeVars, srv, rt, px, uiVars>>

-----------------------------------------------------------------------------
(* Bounds *)

\* the clock takes at most MaxTicks steps
MaxTicks == 4
\* at most MaxRequests backend requests are issued by the store
MaxRequests == 3
\* an upstream list holds at most MaxListLen items
MaxListLen == 2
\* the first NumBuckets rows of a handler's category table are modelled
NumBuckets == 2

-----------------------------------------------------------------------------
(* Client store: constants and pure helpers *)

CACHE_TTL == 30 * 60 * 1000

\* lastFetched: number | null.  Date.now() is positive, so 0 is free to
\* stand for null; the code's truthiness test treats both alike.
NullTime == 0

NoError == "null"

MovieDataKeys == {"trending", "topRated", "action", "comedy", "horror",
                  "romance", "documentaries", "upcoming", "hindi"}

emptyMovieData == [k \in MovieDataKeys |-> <<>>]

\* A field of a response body: an array of items, or anything else
\* (undefined, an object, a string).
Arr(items) == [isArray |-> TRUE, items |-> items]
NotArr == [isArray |-> FALSE, items |-> <<>>]

\* Keys a backend answer may carry: the MovieData keys and the intermediate
\* keys the homepage handler leaves in finalData.
BodyKeys == MovieDataKeys \cup {"upcomingMovies"}

\* The tag of the mock items (MOCK_MOVIES.results); real items of the
\* refresh answered by request g carry tag g >= 1.
MockTag == 0

\* Bodies the backend can answer request g with.
FullBody(g) == [isNull |-> FALSE, fields |-> [k \in BodyKeys |-> Arr(<<g>>)]]
EmptyBody == [isNull |-> FALSE, fields |-> [k \in BodyKeys |-> Arr(<<>>)]]
\* the mock fallback of the homepage handler has no hindi key
MockBody == [isNull |-> FALSE,
             fields |-> [k \in BodyKeys |->
                           IF k \in {"hindi", "upcomingMovies"} THEN NotArr
                           ELSE Arr(<<MockTag>>)]]
\* a body whose trending field is not an array and whose upcoming is missing
OddBody(g) == [isNull |-> FALSE,
               fields |-> [k \in BodyKeys |->
                             IF k \in {"trending", "upcoming"} THEN NotArr
                             ELSE Arr(<<g>>)]]
\* response.data is null / undefined / ""
NullBody == [isNull |-> TRUE, fields |-> [k \in BodyKeys |-> NotArr]]

Bodies(g) == {FullBody(g), EmptyBody, MockBody, OddBody(g), NullBody}

\* err instanceof Error ? err : new Error("Failed to fetch movie data")
FetchErrors == {"AxiosError: Network Error",
                "AxiosError: Request failed with status code 500"}

\* const isCacheFresh = lastFetched && now - lastFetched < CACHE_TTL
IsCacheFreshStrict(lf, t) == lf # NullTime /\ t - lf < CACHE_TTL - 1
IsCacheFresh(lf, t) == lf # NullTime /\ t - lf < CACHE_TTL

\* responseData = response.data || {} ; safeData = { k: Array.isArray(..) ? .. : [] }
SafeDataMerge(body) ==
    [k \in MovieDataKeys |->
        IF ~body.isNull /\ body.fields[k].isArray THEN body.fields[k].items
        ELSE movieData[k]]
SafeData(body) ==
    [k \in MovieDataKeys |->
        IF ~body.isNull /\ body.fields[k].isArray THEN body.fields[k].items
        ELSE <<>>]

\* hooks/useMovieData: what a consumer reads
useMovieData == [data |-> movieData, loading |-> movieDataLoading,
                 error |-> movieDataError]

\* pages/Home: what the page renders for what useMovieData returns
HomeView(data, loading, error) ==
    LET hasNoData == /\ ~loading
                     /\ Len(data["trending"]) = 0
                     /\ Len(data["topRated"]) = 0
                     /\ Len(data["action"]) = 0
    IN IF error # NoError \/ hasNoData THEN "ContentErrorPage" ELSE "rows"

Home == HomeView(useMovieData.data, useMovieData.loading, useMovieData.error)

\* components/Row: eight skeletons while loading, else one card per movie
RowView(movies, loading) ==
    [skeleton |-> loading, cards |-> IF loading THEN <<>> ELSE movies]

\* the buckets Home passes to a Row together with the loading flag
HomeRowKeys == {"trending", "upcoming", "topRated", "hindi", "action", "horror"}

\* the rows of the page, when it renders them
HomeRows ==
    [k \in HomeRowKeys |-> RowView(useMovieData.data[k], useMovieData.loading)]

\* the state a store step found, recorded in lastEvent
Snapshot == [data |-> movieData, loading |-> movieDataLoading,
             error |-> movieDataError, fetched |-> lastFetched,
             pending |-> pending, at |-> now]

-----------------------------------------------------------------------------
(* Client store: actions *)

\* the backend handler before a request arrives
ServerIdle == [phase |-> "idle"]

\* the retry wrapper before it is called
RetryIdle == [st |-> "idle"]

\* the client request layer before a request is made (ProxySpec starts
\* from ClientReady instead)
ClientIdle == [phase |-> "off"]

\* the store as create() leaves it
NullId == 0

\* the store as created, and an empty page
StoreFresh ==
    /\ myList = <<>>
    /\ listEvent = [op |-> "init"]
    /\ trailerCache = <<>>
    /\ hoveredMovieId = NullId
    /\ mounted = {}
    /\ pointer = 0
    /\ hoverTimeout = {}
    /\ movieData = emptyMovieData
    /\ movieDataLoading = FALSE
    /\ movieDataError = NoError
    /\ lastFetched = NullTime
    /\ now = 1
    /\ ticks = 0
    /\ pending = {}
    /\ nextReq = 0
    /\ refreshBase = emptyMovieData
    /\ lastEvent = [op |-> "init"]

StoreInit ==
    /\ srv = ServerIdle
    /\ rt = RetryIdle
    /\ px = ClientIdle
    /\ StoreFresh
    /\ isDesktop = TRUE

\* The guards of fetchMovieData: TRUE when the call goes on to the request.
StartsFetchUnlessFresh(force) ==
    /\ ~IsCacheFresh(lastFetched, now)
    /\ ~movieDataLoading
StartsFetchNoLoadingCheck(force) == force \/ ~IsCacheFresh(lastFetched, now)
StartsFetch(force) ==
    /\ ~(~force /\ IsCacheFresh(lastFetched, now))
    /\ ~movieDataLoading

\* set({ movieDataLoading: true, movieDataError: null }) and the axios.get
BeginRequestClearing ==
    /\ movieDataLoading' = TRUE
    /\ movieDataError' = NoError
    /\ movieData' = emptyMovieData
    /\ pending' = pending \cup {nextReq + 1}
    /\ nextReq' = nextReq + 1
    /\ refreshBase' = movieData
    /\ UNCHANGED lastFetched
BeginRequest ==
    /\ movieDataLoading' = TRUE
    /\ movieDataError' = NoError
    /\ pending' = pending \cup {nextReq + 1}
    /\ nextReq' = nextReq + 1
    /\ refreshBase' = movieData
    /\ UNCHANGED <<movieData, lastFetched>>

\* fetchMovieData(force), from its first line to the await (or the return).
FetchMovieData(force) ==
    /\ nextReq < MaxRequests
    /\ IF StartsFetch(force)
       THEN BeginRequest
       ELSE UNCHANGED <<movieData, movieDataLoading, movieDataError,
                        lastFetched, pending, nextReq, refreshBase>>
    /\ lastEvent' = [op |-> "call", force |-> force, before |-> Snapshot,
                     started |-> StartsFetch(force)]
    /\ UNCHANGED <<now, ticks, srv, rt, px, uiVars>>

\* the continuation after the await, axios.get resolved with body
OnSuccessStillLoading(r, body) ==
    /\ movieData' = SafeData(body)
    /\ lastFetched' = now
    /\ movieDataError' = NoError
    /\ UNCHANGED movieDataLoading
OnSuccess(r, body) ==
    /\ movieData' = SafeData(body)
    /\ movieDataLoading' = FALSE
    /\ lastFetched' = now
    /\ movieDataError' = NoError

FetchSucceeds(r, body) ==
    /\ r \in pending
    /\ OnSuccess(r, body)
    /\ pending' = pending \ {r}
    /\ lastEvent' = [op |-> "success", req |-> r, body |-> body,
                     before |-> Snapshot]
    /\ UNCHANGED <<now, ticks, nextReq, refreshBase, srv, rt, px, uiVars>>

\* the catch block, axios.get rejected with err
OnFailureMarksFresh(r, err) ==
    /\ movieDataError' = err
    /\ movieDataLoading' = FALSE
    /\ lastFetched' = now
    /\ UNCHANGED movieData
OnFailureClearing(r, err) ==
    /\ movieDataError' = err
    /\ movieDataLoading' = FALSE
    /\ movieData' = emptyMovieData
    /\ UNCHANGED lastFetched
OnFailure(r, err) ==
    /\ movieDataError' = err
    /\ movieDataLoading' = FALSE
    /\ UNCHANGED <<movieData, lastFetched>>

FetchFails(r, err) ==
    /\ r \in pending
    /\ OnFailure(r, err)
    /\ pending' = pending \ {r}
    /\ lastEvent' = [op |-> "failure", req |-> r, err |-> err,
                     before |-> Snapshot]
    /\ UNCHANGED <<now, ticks, nextReq, refreshBase, srv, rt, px, uiVars>>

\* time passes: 1 ms, one TTL, or one millisecond short of it
TickSteps == {1, CACHE_TTL - 1, CACHE_TTL}
Tick(d) ==
    /\ ticks < MaxTicks
    /\ now' = now + d
    /\ ticks' = ticks + 1
    /\ lastEvent' = [op |-> "tick"]
    /\ UNCHANGED <<movieData, movieDataLoading, movieDataError, lastFetched,
                   pending, nextReq, refreshBase, srv, rt, px, uiVars>>

StoreNext ==
    \/ \E force \in BOOLEAN : FetchMovieData(force)
    \/ \E r \in pending : \E body \in Bodies(r) : FetchSucceeds(r, body)
    \/ \E r \in pending : \E err \in FetchErrors : FetchFails(r, err)
    \/ \E d \in TickSteps : Tick(d)

StoreSpec == StoreInit /\ [][StoreNext]_vars

\* the axios.get of a request in flight resolves or rejects
RequestSettles ==
    \E r \in pending :
        \/ \E body \in Bodies(r) : FetchSucceeds(r, body)
        \/ \E err \in FetchErrors : FetchFails(r, err)

\* the store under the assumption that every backend request settles
StoreFairSpec == StoreInit /\ [][StoreNext]_vars /\ WF_vars(RequestSettles)

-----------------------------------------------------------------------------
(* Backend: upstream data, retry wrapper, pure helpers *)

Kinds == {"movie", "tv"}
\* the ids upstream titles are drawn from; a movie and a show may share one
Ids == {1, 2}

\* A summary item of a list endpoint.  media_type is "none" when the
\* endpoint sends no discriminant; first_air_date is the tv-only field.
SummaryItem(id, kind, explicit) ==
    [id |-> id,
     media_type |-> IF explicit THEN kind ELSE "none",
     first_air_date |-> (kind = "tv"),
     detail |-> FALSE]

\* The record GET /movie/{id} or /tv/{id} answers with: no media_type,
\* first_air_date on a show, and the appended images/credits.
DetailRecord(id, type) ==
    [id |-> id, media_type |-> "none", first_air_date |-> (type = "tv"),
     detail |-> TRUE]

\* the placeholder for "return null" of a failed detail request
NullItem == [id |-> 0, media_type |-> "none", first_air_date |-> FALSE,
             detail |-> FALSE]

Row(key, kinds, explicit) == [key |-> key, kinds |-> kinds, explicit |-> explicit]

\* const requests = {...} of each handler, in Object.entries order
HomepageTable ==
    << Row("trending", Kinds, TRUE), Row("topRated", {"movie"}, FALSE),
       Row("action", {"movie"}, FALSE), Row("comedy", {"movie"}, FALSE),
       Row("horror", {"movie"}, FALSE), Row("romance", {"movie"}, FALSE),
       Row("documentaries", {"movie"}, FALSE),
       Row("upcomingMovies", {"movie"}, FALSE), Row("upcomingTV", {"tv"}, FALSE),
       Row("hindiMovies", {"movie"}, FALSE), Row("koreanMovies", {"movie"}, FALSE),
       Row("koreanTV", {"tv"}, FALSE) >>
BrowseTvTable ==
    << Row("trending", {"tv"}, TRUE), Row("topRated", {"tv"}, FALSE),
       Row("action", {"tv"}, FALSE), Row("comedy", {"tv"}, FALSE),
       Row("horror", {"tv"}, FALSE), Row("romance", {"tv"}, FALSE),
       Row("documentaries", {"tv"}, FALSE) >>
BrowseMoviesTable ==
    << Row("trending", {"movie"}, TRUE), Row("topRated", {"movie"}, FALSE),
       Row("action", {"movie"}, FALSE), Row("comedy", {"movie"}, FALSE),
       Row("horror", {"movie"}, FALSE), Row("romance", {"movie"}, FALSE),
       Row("documentaries", {"movie"}, FALSE) >>
\* the four requests of the New & Popular handler, in Promise.all order
PopularTable ==
    << Row("popMovies", {"movie"}, FALSE), Row("popTV", {"tv"}, FALSE),
       Row("trendMovies", {"movie"}, TRUE), Row("trendTV", {"tv"}, TRUE) >>

Handlers == {"homepage", "browseTV", "browseMovies", "popular"}
\* server/server.ts wraps every upstream call in retryAxiosRequest;
\* the serverless functions (api/*.ts) call axios.get directly
Deploys == {"express", "vercel"}

Min(a, b) == IF a < b THEN a ELSE b

FullTable(h) ==
    CASE h = "homepage" -> HomepageTable
      [] h = "browseTV" -> BrowseTvTable
      [] h = "browseMovies" -> BrowseMoviesTable
      [] h = "popular" -> PopularTable

requests(h) ==
    IF h = "popular" THEN PopularTable
    ELSE SubSeq(FullTable(h), 1, Min(NumBuckets, Len(FullTable(h))))

RequestKeys(h) == {requests(h)[i].key : i \in 1..Len(requests(h))}
RowOf(h, key) == CHOOSE r \in {requests(h)[i] : i \in 1..Len(requests(h))} : r.key = key

\* mediaType of the browse handlers
BrowseType(h) == IF h = "browseTV" THEN "tv" ELSE "movie"

\* the lists of at most n distinct elements of S (a list endpoint names a
\* title once)
SeqsUpTo(S, n) ==
    UNION {{l \in [1..m -> S] : \A i, j \in 1..m : l[i] = l[j] => i = j} : m \in 0..n}

ItemsOf(row) == {SummaryItem(id, k, row.explicit) : id \in Ids, k \in row.kinds}

\* Bodies a list endpoint can answer with: {results: [...]} or a body
\* without results.  The New & Popular lists are kept to one item.
ListBodies(h, row) ==
    {[hasResults |-> FALSE, results |-> <<>>]} \cup
    {[hasResults |-> TRUE, results |-> l] :
        l \in SeqsUpTo(ItemsOf(row), IF h = "popular" THEN 1 ELSE MaxListLen)}

\* Errors an axios call can reject with
ETimeout == [code |-> "ECONNABORTED", timeoutMsg |-> TRUE, hasResponse |-> FALSE]
ERefused == [code |-> "ECONNREFUSED", timeoutMsg |-> FALSE, hasResponse |-> FALSE]
EHttp == [code |-> "ERR_BAD_RESPONSE", timeoutMsg |-> FALSE, hasResponse |-> TRUE]
NoErr == [code |-> "none", timeoutMsg |-> FALSE, hasResponse |-> FALSE]
UpstreamErrors == {ETimeout, ERefused, EHttp}

\* maxRetries: number = 3
DefaultMaxRetries == 3

\* retryAxiosRequest: isNetworkError
IsNetworkError(e) ==
    \/ e.code \in {"ECONNABORTED", "ETIMEDOUT", "ENOTFOUND"}
    \/ e.timeoutMsg
    \/ ~e.hasResponse

\* One upstream request: its attempt in flight, waiting out a backoff,
\* resolved (ok) or rejected (failed).
NewRequest(noBody) == [st |-> "inflight", attempt |-> 0, body |-> noBody, err |-> NoErr]

\* the catch block of retryAxiosRequest (express) or the bare rejection (vercel)
AfterError(req, e, deploy) ==
    IF deploy = "express" /\ req.attempt # DefaultMaxRetries /\ IsNetworkError(e)
    THEN [req EXCEPT !.st = "backoff"]
    ELSE [req EXCEPT !.st = "failed", !.err = e]

\* the setTimeout of the backoff fired: next iteration of the loop
AfterBackoff(req) == [req EXCEPT !.st = "inflight", !.attempt = req.attempt + 1]

Settled(req) == req.st \in {"ok", "failed"}

\* await Promise.all(promises) over promises that each catch their own
\* rejection: it returns when every one of them has settled
AnySettled(reqs) == \E x \in DOMAIN reqs : Settled(reqs[x])
AllSettled(reqs) == \A x \in DOMAIN reqs : Settled(reqs[x])

\* return await requestFn(): the wrapper returned the response, its loop
\* counter is gone
Resolved(req, value) == [req EXCEPT !.st = "ok", !.attempt = 0, !.body = value]

\* a try/catch around the wrapped request swallowed the error it re-raised:
\* only the fact that it failed is left
Caught(req) ==
    IF req.st = "failed" THEN [req EXCEPT !.err = NoErr, !.attempt = 0] ELSE req

\* response.data.results || []
ResultsOf(body) == IF body.hasResults THEN body.results ELSE <<>>

\* the results field a list promise resolved with: the fetched list, or []
\* from its catch block
ListResult(req) == IF req.st = "ok" THEN req.body ELSE <<>>

\* const type = item.media_type || (item.first_air_date ? 'tv' : 'movie')
InferType(item) ==
    IF item.media_type # "none" THEN item.media_type
    ELSE IF item.first_air_date THEN "tv" ELSE "movie"

OrEmpty(f, k) == IF k \in DOMAIN f THEN f[k] ELSE <<>>

\* Object.values(listsMap).flat(): the lists of the keys present, in the
\* order the keys were inserted (the order of the table)
RECURSIVE Flat(_, _)
Flat(rows, lm) ==
    IF rows = <<>> THEN <<>>
    ELSE OrEmpty(lm, Head(rows).key) \o Flat(Tail(rows), lm)

HasId(seq, id) == \E i \in 1..Len(seq) : seq[i].id = id

\* uniqueItemsMap of the homepage handler: first occurrence of each id
RECURSIVE UniqueItems(_, _)
UniqueItems(items, acc) ==
    IF items = <<>> THEN acc
    ELSE UniqueItems(Tail(items),
            IF HasId(acc, Head(items).id) THEN acc
            ELSE Append(acc, [id |-> Head(items).id, type |-> InferType(Head(items))]))

\* [...new Set(items.map(item => item.id))] of enrichWithDetails, typed by its argument
RECURSIVE UniqueIds(_, _, _)
UniqueIds(items, type, acc) ==
    IF items = <<>> THEN acc
    ELSE UniqueIds(Tail(items), type,
            IF HasId(acc, Head(items).id) THEN acc
            ELSE Append(acc, [id |-> Head(items).id, type |-> type]))

\* detailsMap.get(id): the last non-null detail stored under id, or NullItem
RECURSIVE MapGet(_, _)
MapGet(records, id) ==
    IF records = <<>> THEN NullItem
    ELSE LET last == records[Len(records)]
         IN IF last # NullItem /\ last.id = id THEN last
            ELSE MapGet(SubSeq(records, 1, Len(records) - 1), id)

\* detailsResults: response.data of a resolved detail request, null otherwise
DetailResults(details) ==
    [i \in 1..Len(details) |->
        IF details[i].st = "ok" THEN details[i].body ELSE NullItem]

\* listsMap[key].map(item => detailsMap.get(item.id) || item)
HydrateEnrichedOnly(list, results) ==
    LET kept == SelectSeq(list, LAMBDA it : MapGet(results, it.id) # NullItem)
    IN [i \in 1..Len(kept) |-> MapGet(results, kept[i].id)]
HydrateAllOrNothing(list, results) ==
    IF \E j \in 1..Len(results) : results[j] = NullItem THEN list
    ELSE [i \in 1..Len(list) |->
            IF MapGet(results, list[i].id) # NullItem
            THEN MapGet(results, list[i].id) ELSE list[i]]
Hydrate(list, results) ==
    [i \in 1..Len(list) |->
        IF MapGet(results, list[i].id) # NullItem
        THEN MapGet(results, list[i].id) ELSE list[i]]

-----------------------------------------------------------------------------
(* Backend: one request through a handler *)

NoFinalData == [k \in {} |-> <<>>]
NoResponse == [status |-> 0, body |-> NoFinalData]

\* One call of enrichWithDetails(items, type): its argument, the detail
\* requests it issued (uniqueIds) as they settled, and the list it returned.
NoEnrich == [items |-> <<>>, wanted |-> <<>>, details |-> <<>>, out |-> <<>>]
EnrichCall(items, wanted, details) ==
    [items |-> items, wanted |-> wanted, details |-> details,
     out |-> Hydrate(items, DetailResults(details))]

\* the handler entered: every list request of the table issued (attempt 0)
StartHandler(h, d) ==
    [phase |-> "lists", handler |-> h, deploy |-> d,
     lists |-> [k \in RequestKeys(h) |-> NewRequest(<<>>)],
     listsMap |-> NoFinalData,
     wanted |-> <<>>, details |-> <<>>, issued |-> <<>>,
     stage |-> 0, enriched |-> [k \in RequestKeys(h) |-> <<>>],
     lastEnrich |-> NoEnrich,
     httpRejected |-> FALSE,
     response |-> NoResponse]

ServerInit ==
    /\ srv \in {StartHandler(h, d) : h \in Handlers, d \in Deploys}
    /\ rt = RetryIdle
    /\ px = ClientIdle
    /\ StoreFresh
    /\ isDesktop = TRUE

\* res.status(500).json({ error: 'Failed to fetch ... data' })
ErrorResponse == [status |-> 500, body |-> NoFinalData]

\* MOCK_MOVIES.results: shows carrying media_type and no first_air_date
MockItem(id) == [id |-> id, media_type |-> "tv", first_air_date |-> FALSE,
                 detail |-> FALSE]
MockResults == <<MockItem(1), MockItem(2)>>

\* mockResult of the homepage handler's catch block
MockResult ==
    [k \in {"trending", "topRated", "action", "comedy", "horror", "romance",
            "documentaries", "upcoming"} |-> MockResults]

\* an attempt of list request k resolved with an upstream body
ListAttemptOk(k, body) ==
    /\ srv.phase = "lists"
    /\ srv.lists[k].st = "inflight"
    /\ srv' = [srv EXCEPT !.lists[k] = Resolved(@, ResultsOf(body))]
    /\ UNCHANGED <<storeVars, rt, px, uiVars>>

\* What a rejected list request does to the handler.  The homepage and
\* browse list promises catch it; the New & Popular Promise.all has no
\* catch, so the rejection reaches the handler's catch block.  httpRejected
\* remembers that a list promise caught an error carrying a response.
ListRejectedUncaught(s, k) ==
    IF s.lists[k].st = "failed"
    THEN [s EXCEPT !.phase = "done", !.response = ErrorResponse]
    ELSE s
ListRejected(s, k) ==
    IF s.handler = "popular"
    THEN IF s.lists[k].st = "failed"
         THEN [s EXCEPT !.phase = "done", !.response = ErrorResponse]
         ELSE s
    ELSE [s EXCEPT !.lists[k] = Caught(@),
                   !.httpRejected = @ \/ (s.lists[k].st = "failed"
                                           /\ s.lists[k].err.hasResponse)]

\* an attempt of list request k rejected with error e
ListAttemptErr(k, e) ==
    /\ srv.phase = "lists"
    /\ srv.lists[k].st = "inflight"
    /\ srv' = ListRejected(
                [srv EXCEPT !.lists[k] = AfterError(@, e, srv.deploy)], k)
    /\ UNCHANGED <<storeVars, rt, px, uiVars>>

ListBackoffElapsed(k) ==
    /\ srv.phase = "lists"
    /\ srv.lists[k].st = "backoff"
    /\ srv' = [srv EXCEPT !.lists[k] = AfterBackoff(@)]
    /\ UNCHANGED <<storeVars, rt, px, uiVars>>

\* listsResults.forEach(({ key, results }) => { listsMap[key] = results; })
ListsMapDropFailed(s) ==
    [k \in {q \in DOMAIN s.lists : s.lists[q].st = "ok"} |-> ListResult(s.lists[k])]
ListsMapOf(s) == [k \in DOMAIN s.lists |-> ListResult(s.lists[k])]

\* the detail requests a handler issues for the items it fetched
WantedNoDedup(h, items) ==
    [i \in 1..Len(items) |-> [id |-> items[i].id, type |-> InferType(items[i])]]
Wanted(h, items) ==
    IF h = "homepage" THEN UniqueItems(items, <<>>)
    ELSE UniqueIds(items, BrowseType(h), <<>>)

\* await Promise.all(listPromises) returned: build listsMap, collect the
\* unique ids and issue their detail requests
JoinLists ==
    /\ srv.phase = "lists"
    /\ srv.handler # "popular"
    /\ AllSettled(srv.lists)
    /\ LET lm == ListsMapOf(srv)
           w == Wanted(srv.handler, Flat(requests(srv.handler), lm))
       IN srv' = [srv EXCEPT !.phase = "details",
                             !.listsMap = lm,
                             !.wanted = w,
                             !.issued = w,
                             !.details = [i \in 1..Len(w) |-> NewRequest(NullItem)]]
    /\ UNCHANGED <<storeVars, rt, px, uiVars>>

DetailAttemptOk(i) ==
    /\ srv.phase = "details"
    /\ i \in 1..Len(srv.details)
    /\ srv.details[i].st = "inflight"
    /\ srv' = [srv EXCEPT !.details[i] =
                 Resolved(@, DetailRecord(srv.wanted[i].id, srv.wanted[i].type))]
    /\ UNCHANGED <<storeVars, rt, px, uiVars>>

DetailAttemptErr(i, e) ==
    /\ srv.phase = "details"
    /\ i \in 1..Len(srv.details)
    /\ srv.details[i].st = "inflight"
    /\ srv' = [srv EXCEPT !.details[i] = Caught(AfterError(@, e, srv.deploy))]
    /\ UNCHANGED <<storeVars, rt, px, uiVars>>

DetailBackoffElapsed(i) ==
    /\ srv.phase = "details"
    /\ i \in 1..Len(srv.details)
    /\ srv.details[i].st = "backoff"
    /\ srv' = [srv EXCEPT !.details[i] = AfterBackoff(@)]
    /\ UNCHANGED <<storeVars, rt, px, uiVars>>

\* the orders [...].sort(() => Math.random() - 0.5) can leave a list in
Shuffles(list) ==
    {s \in [1..Len(list) -> {list[i] : i \in 1..Len(list)}] :
        \E p \in [1..Len(list) -> 1..Len(list)] :
            /\ \A i, j \in 1..Len(list) : p[i] = p[j] => i = j
            /\ \A i \in 1..Len(list) : s[i] = list[p[i]]}

\* homepage: hydrate every list, then add the combined upcoming and hindi keys
HomepageFinalData(lm, results, upcoming, hindi) ==
    [k \in DOMAIN lm \cup {"upcoming", "hindi"} |->
        IF k = "upcoming" THEN upcoming
        ELSE IF k = "hindi" THEN hindi
        ELSE Hydrate(lm[k], results)]

\* browse: enrichWithDetails(allItems), enrichedMap by id, rebuild the lists
BrowseFinalData(h, lm, results) ==
    LET enrichedItems == Hydrate(Flat(requests(h), lm), results)
    IN [k \in DOMAIN lm |->
          [i \in 1..Len(lm[k]) |->
              IF MapGet(enrichedItems, lm[k][i].id) # NullItem
              THEN MapGet(enrichedItems, lm[k][i].id) ELSE lm[k][i]]]

\* await Promise.all(detailPromises) returned: hydrate and res.json(finalData)
Respond ==
    /\ srv.phase = "details"
    /\ srv.handler # "popular"
    /\ AllSettled(srv.details)
    /\ LET results == DetailResults(srv.details)
           hyd(k) == Hydrate(OrEmpty(srv.listsMap, k), results)
       IN IF srv.handler = "homepage"
          THEN \E up \in Shuffles(hyd("upcomingMovies") \o hyd("upcomingTV")) :
               \E hi \in Shuffles(hyd("hindiMovies")) :
                  srv' = [srv EXCEPT
                            !.phase = "done",
                            !.response = [status |-> 200,
                                          body |-> HomepageFinalData(srv.listsMap, results, up, hi)]]
          ELSE srv' = [srv EXCEPT
                         !.phase = "done",
                         !.lastEnrich =
                            EnrichCall(Flat(requests(srv.handler), srv.listsMap),
                                       srv.wanted, srv.details),
                         !.response = [status |-> 200,
                                       body |-> BrowseFinalData(srv.handler, srv.listsMap, results)]]
    /\ UNCHANGED <<storeVars, rt, px, uiVars>>

\* New & Popular: the bucket each of the four lists is served under
PopularBucket(key) ==
    CASE key = "popMovies" -> "trending"
      [] key = "popTV" -> "topRated"
      [] key = "trendMovies" -> "action"
      [] key = "trendTV" -> "comedy"

PopularType(row) == CHOOSE t \in row.kinds : TRUE

PopularBody(enriched) ==
    [k \in {"trending", "topRated", "action", "comedy", "horror", "romance",
            "documentaries"} |->
        IF \E key \in DOMAIN enriched : PopularBucket(key) = k
        THEN enriched[CHOOSE key \in DOMAIN enriched : PopularBucket(key) = k]
        ELSE <<>>]

\* the stage-th enrichWithDetails call of the New & Popular handler begins
PopularStage(s, n) ==
    LET row == PopularTable[n]
        w == UniqueIds(s.listsMap[row.key], PopularType(row), <<>>)
    IN [s EXCEPT !.phase = "details", !.stage = n, !.wanted = w,
                 !.issued = s.issued \o w,
                 !.details = [i \in 1..Len(w) |-> NewRequest(NullItem)]]

\* New & Popular: await Promise.all([...four lists...]) returned
PopularJoinLists ==
    /\ srv.phase = "lists"
    /\ srv.handler = "popular"
    /\ \A k \in DOMAIN srv.lists : srv.lists[k].st = "ok"
    /\ srv' = PopularStage([srv EXCEPT !.listsMap = ListsMapOf(srv)], 1)
    /\ UNCHANGED <<storeVars, rt, px, uiVars>>

\* New & Popular: one enrichWithDetails call returned; start the next one, or
\* res.json after the fourth
PopularEnriched ==
    /\ srv.phase = "details"
    /\ srv.handler = "popular"
    /\ \A i \in 1..Len(srv.details) : Settled(srv.details[i])
    /\ LET key == PopularTable[srv.stage].key
           call == EnrichCall(srv.listsMap[key], srv.wanted, srv.details)
           done == [srv EXCEPT !.enriched[key] = call.out, !.lastEnrich = call]
       IN IF srv.stage < Len(PopularTable)
          THEN srv' = PopularStage(done, srv.stage + 1)
          ELSE srv' = [done EXCEPT !.phase = "done",
                                   !.response = [status |-> 200,
                                                 body |-> PopularBody(done.enriched)]]
    /\ UNCHANGED <<storeVars, rt, px, uiVars>>

ServerNext ==
    \/ \E k \in DOMAIN srv.lists :
          \E body \in ListBodies(srv.handler, RowOf(srv.handler, k)) :
             ListAttemptOk(k, body)
    \/ \E k \in DOMAIN srv.lists : \E e \in UpstreamErrors : ListAttemptErr(k, e)
    \/ \E k \in DOMAIN srv.lists : ListBackoffElapsed(k)
    \/ JoinLists
    \/ \E i \in 1..Len(srv.details) : DetailAttemptOk(i)
    \/ \E i \in 1..Len(srv.details) : \E e \in UpstreamErrors : DetailAttemptErr(i, e)
    \/ \E i \in 1..Len(srv.details) : DetailBackoffElapsed(i)
    \/ Respond
    \/ PopularJoinLists
    \/ PopularEnriched

ServerSpec == ServerInit /\ [][ServerNext]_vars

-----------------------------------------------------------------------------
(* Retry wrapper: one call of retryAxiosRequest(requestFn, maxRetries)      *)

\* an exception thrown inside requestFn that is no axios error: no code, no
\* response, a message without "timeout" (a TypeError, say)
EProgramming == [code |-> "undefined", timeoutMsg |-> FALSE, hasResponse |-> FALSE]

\* What one invocation of requestFn does: resolve, or reject with an error.
Resolves == [ok |-> TRUE, err |-> NoErr]
Rejects(e) == [ok |-> FALSE, err |-> e]
Outcomes == {Resolves} \cup {Rejects(e) : e \in UpstreamErrors \cup {EProgramming}}

\* A request function is given by the outcomes of its first invocations;
\* later invocations repeat the last one.  At most MaxOutcomes are listed.
MaxOutcomes == 3
RequestFns == UNION {[1..n -> Outcomes] : n \in 1..MaxOutcomes}
OutcomeOf(fn, n) == fn[Min(n, Len(fn))]

\* the maxRetries a caller passes (the default is DefaultMaxRetries)
RetryCounts == 1..DefaultMaxRetries

\* baseDelay: number = 1000
DefaultBaseDelay == 1000

RECURSIVE Pow2(_)
Pow2(n) == IF n = 0 THEN 1 ELSE 2 * Pow2(n - 1)

\* const delay = baseDelay * Math.pow(2, attempt)
BackoffDelay(baseDelay, attempt) == baseDelay * Pow2(attempt)

\* retryAxiosRequest entered: attempt = 0 and requestFn() called for the
\* first time
RetryCall(fn, maxRetries) ==
    [st |-> "invoking", fn |-> fn, maxRetries |-> maxRetries,
     attempt |-> 0, invocations |-> 1, lastError |-> NoErr,
     caught |-> <<>>, delays |-> <<>>, result |-> 0,
     clock |-> 0, startedAt |-> <<0>>, settledAt |-> <<>>]

RetryInit ==
    /\ rt \in {RetryCall(fn, m) : fn \in RequestFns, m \in RetryCounts}
    /\ srv = ServerIdle
    /\ px = ClientIdle
    /\ StoreFresh
    /\ isDesktop = TRUE

\* if (attempt === maxRetries || !isNetworkError) throw lastError; negated
ShouldRetryOneMore(attempt, maxRetries, e) ==
    attempt # maxRetries + 1 /\ IsNetworkError(e)
ShouldRetry(attempt, maxRetries, e) ==
    ~(attempt = maxRetries \/ ~IsNetworkError(e))

\* return await requestFn(): the value of the invocation that resolved
\* (the n-th invocation resolves with response n)
RetryReturnStale(r) ==
    IF r.lastError # NoErr THEN [r EXCEPT !.st = "thrown"]
    ELSE [r EXCEPT !.st = "returned", !.result = r.invocations]
RetryReturn(r) == [r EXCEPT !.st = "returned", !.result = r.invocations]

\* the catch block: lastError = error, then throw or compute the delay and
\* start the timer
RetryCatchAlwaysRetry(r, e) ==
    IF r.attempt # r.maxRetries
    THEN [r EXCEPT !.st = "waiting", !.lastError = e, !.caught = Append(@, e),
                   !.delays = Append(@, BackoffDelay(DefaultBaseDelay, r.attempt))]
    ELSE [r EXCEPT !.st = "thrown", !.lastError = e, !.caught = Append(@, e)]
RetryCatch(r, e) ==
    IF ShouldRetry(r.attempt, r.maxRetries, e)
    THEN [r EXCEPT !.st = "waiting", !.lastError = e, !.caught = Append(@, e),
                   !.delays = Append(@, BackoffDelay(DefaultBaseDelay, r.attempt))]
    ELSE [r EXCEPT !.st = "thrown", !.lastError = e, !.caught = Append(@, e)]

\* How long one requestFn() takes to settle, and how late after its delay a
\* setTimeout callback runs (never early), in ms.
Durations == {1, 2}
Lateness == {0, 1}

\* the pending requestFn() resolved
RetryInvokeOk(d) ==
    /\ rt.st = "invoking"
    /\ OutcomeOf(rt.fn, rt.invocations).ok
    /\ rt' = [RetryReturn(rt) EXCEPT !.clock = rt.clock + d,
                                     !.settledAt = Append(@, rt.clock + d)]
    /\ UNCHANGED <<storeVars, srv, px, uiVars>>

\* the pending requestFn() rejected
RetryInvokeErr(d) ==
    /\ rt.st = "invoking"
    /\ ~OutcomeOf(rt.fn, rt.invocations).ok
    /\ rt' = [RetryCatch(rt, OutcomeOf(rt.fn, rt.invocations).err)
                 EXCEPT !.clock = rt.clock + d,
                        !.settledAt = Append(@, rt.clock + d)]
    /\ UNCHANGED <<storeVars, srv, px, uiVars>>

\* the backoff timer, set in the catch block with the delay computed there,
\* fired: attempt++ and the next requestFn()
RetryBackoffElapsed(late) ==
    /\ rt.st = "waiting"
    /\ LET t == rt.clock + rt.delays[Len(rt.delays)] + late
       IN  rt' = [rt EXCEPT !.st = "invoking", !.attempt = @ + 1,
                            !.invocations = @ + 1, !.clock = t,
                            !.startedAt = Append(@, t)]
    /\ UNCHANGED <<storeVars, srv, px, uiVars>>

RetryNext ==
    \/ \E d \in Durations : RetryInvokeOk(d)
    \/ \E d \in Durations : RetryInvokeErr(d)
    \/ \E late \in Lateness : RetryBackoffElapsed(late)

RetrySpec == RetryInit /\ [][RetryNext]_vars

-----------------------------------------------------------------------------
(* Client request layer (services/tmdb.ts, services/trailerResolver.ts) and *)
(* the generic passthrough app.use('/api/tmdb')                             *)

\* A url of the requests table, with what the interceptor's includes()
\* tests see in it.
Url(path, tv, movie, discover, topRated, search) ==
    [path |-> path, tv |-> tv, movie |-> movie, discover |-> discover,
     topRated |-> topRated, search |-> search]
UrlTrending == Url("/trending/all/week", FALSE, FALSE, FALSE, FALSE, FALSE)
UrlTopRated == Url("/movie/top_rated", FALSE, TRUE, FALSE, TRUE, FALSE)
UrlSearch == Url("/search/multi", FALSE, FALSE, FALSE, FALSE, TRUE)
UrlTvDetails == Url("/tv/{id}", TRUE, FALSE, FALSE, FALSE, FALSE)
UrlMovieDetails == Url("/movie/{id}", FALSE, TRUE, FALSE, FALSE, FALSE)
UrlVideos(type) == Url("/{type}/{id}/videos", type = "tv", type = "movie",
                       FALSE, FALSE, FALSE)
ClientUrls == {UrlTrending, UrlTopRated, UrlSearch, UrlTvDetails, UrlMovieDetails}

\* the names of the query parameters the url carries
QueryOf(url) ==
    IF url = UrlSearch THEN {"include_adult", "language", "page"}
    ELSE IF url \in {UrlTvDetails, UrlMovieDetails}
         THEN {"language", "append_to_response"}
         ELSE {"language"}

\* An HTTP request: where it goes, the names of its query parameters and of
\* its headers.  The TMDB credential travels as the api_key parameter or as
\* the Authorization header.
Request(to, url, params, headers) ==
    [to |-> to, url |-> url, params |-> params, headers |-> headers]
NoRequest == Request("none", UrlTrending, {}, {})

\* statuses TMDB answers a rejected request with
HttpStatuses == {401, 404}

\* what a response carries: the upstream JSON, a mock, an error object
Reply(status, body) == [status |-> status, body |-> body]
NoReply == Reply(0, "none")

\* the browser code before it makes a request.  viteKey: VITE_TMDB_API_KEY
\* is set in the bundle; serverKey: TMDB_API_KEY is set on the backend.
ClientReady(viteKey, serverKey) ==
    [phase |-> "idle", viteKey |-> viteKey, serverKey |-> serverKey,
     via |-> "none", browserReq |-> NoRequest, upstreamReq |-> NoRequest,
     req |-> NewRequest("none"), upstreamErr |-> NoErr, upstreamStatus |-> 0,
     response |-> NoReply, result |-> NoReply]

ProxyInit ==
    /\ px \in {ClientReady(v, k) : v \in BOOLEAN, k \in BOOLEAN}
    /\ srv = ServerIdle
    /\ rt = RetryIdle
    /\ StoreFresh
    /\ isDesktop = TRUE

\* tmdb.get(url): the axios instance with baseURL BACKEND_URL/api/tmdb
TmdbGet(url) ==
    /\ px.phase = "idle"
    /\ px' = [px EXCEPT !.phase = "toBackend", !.via = "tmdb",
                        !.browserReq = Request("backend", url, QueryOf(url), {})]
    /\ UNCHANGED <<storeVars, srv, rt, uiVars>>

\* fetchTMDBDirect(movie), up to its await: null without a key, else a GET
\* to api.themoviedb.org with params {api_key, language}
FetchTMDBDirect(type) ==
    /\ px.phase = "idle"
    /\ px' = IF ~px.viteKey
             THEN [px EXCEPT !.phase = "done", !.via = "direct",
                             !.result = Reply(0, "null")]
             ELSE [px EXCEPT !.phase = "toTmdb", !.via = "direct",
                             !.browserReq = Request("tmdb", UrlVideos(type),
                                                    {"api_key", "language"}, {})]
    /\ UNCHANGED <<storeVars, srv, rt, uiVars>>

\* fetchTMDBDirect after the await: pickBest(data.results), or null from
\* the catch block
DirectSettles(ok, found) ==
    /\ px.phase = "toTmdb"
    /\ px' = [px EXCEPT !.phase = "done",
                        !.result = IF ok /\ found THEN Reply(200, "videoKey")
                                   ELSE Reply(0, "null")]
    /\ UNCHANGED <<storeVars, srv, rt, uiVars>>

\* validateApiKey, then the passthrough handler up to its await: the
\* upstream request with params: req.query and the Authorization header
ProxyReceive ==
    /\ px.phase = "toBackend"
    /\ px' = IF ~px.serverKey
             THEN [px EXCEPT !.phase = "responded",
                             !.response = Reply(500, "error")]
             ELSE [px EXCEPT !.phase = "upstream",
                             !.upstreamReq =
                                Request("tmdb", px.browserReq.url,
                                        px.browserReq.params,
                                        {"Authorization", "Content-Type"})]
    /\ UNCHANGED <<storeVars, srv, rt, uiVars>>

\* res.json(response.data)
UpstreamOk ==
    /\ px.phase = "upstream"
    /\ px.req.st = "inflight"
    /\ px' = [px EXCEPT !.phase = "responded",
                        !.req = Resolved(@, "data"),
                        !.response = Reply(200, "data")]
    /\ UNCHANGED <<storeVars, srv, rt, uiVars>>

\* the catch block of the passthrough handler
PassthroughCatch(e, status) ==
    IF e.code = "ECONNABORTED" \/ e.timeoutMsg \/ ~e.hasResponse
    THEN Reply(200, "MOCK_MOVIES")
    ELSE IF e.hasResponse THEN Reply(status, "error")
         ELSE Reply(500, "error")

\* an attempt of the upstream request rejected: the retry wrapper waits, or
\* re-raises into the handler's catch block
UpstreamErr(e, status) ==
    /\ px.phase = "upstream"
    /\ px.req.st = "inflight"
    /\ LET after == AfterError(px.req, e, "express")
       IN px' = IF after.st = "backoff"
                THEN [px EXCEPT !.req = after]
                ELSE [px EXCEPT !.phase = "responded",
                                !.req = after,
                                !.upstreamErr = e,
                                !.upstreamStatus = IF e.hasResponse THEN status ELSE 0,
                                !.response = PassthroughCatch(e, status)]
    /\ UNCHANGED <<storeVars, srv, rt, uiVars>>

UpstreamBackoffElapsed ==
    /\ px.phase = "upstream"
    /\ px.req.st = "backoff"
    /\ px' = [px EXCEPT !.req = AfterBackoff(@)]
    /\ UNCHANGED <<storeVars, srv, rt, uiVars>>

\* the mock response the interceptor of the tmdb instance resolves with
ClientMock(url) ==
    IF url.tv /\ ~url.discover THEN Reply(200, "MOCK_TV_DETAILS")
    ELSE IF url.movie /\ ~url.discover /\ ~url.topRated
         THEN Reply(200, "mockMovie")
         ELSE IF url.search THEN Reply(200, "MOCK_MOVIES")
              ELSE Reply(200, "MOCK_MOVIES shuffled")

\* tmdb.interceptors.response.use(onFulfilled, onRejected): what the
\* caller of tmdb.get gets for the backend's reply; a reply outside 2xx
\* is an axios error
Intercept(url, reply) ==
    IF reply.status \in 200..299 THEN reply ELSE ClientMock(url)

\* the backend's response reached the browser
ClientReceives ==
    /\ px.phase = "responded"
    /\ px' = [px EXCEPT !.phase = "done",
                        !.result = Intercept(px.browserReq.url, px.response)]
    /\ UNCHANGED <<storeVars, srv, rt, uiVars>>

\* the browser could not reach the backend: an axios error without a
\* response goes through the interceptor
BackendUnreachable ==
    /\ px.phase = "toBackend"
    /\ px' = [px EXCEPT !.phase = "done",
                        !.result = ClientMock(px.browserReq.url)]
    /\ UNCHANGED <<storeVars, srv, rt, uiVars>>

ProxyNext ==
    \/ \E url \in ClientUrls : TmdbGet(url)
    \/ \E type \in Kinds : FetchTMDBDirect(type)
    \/ \E ok, found \in BOOLEAN : DirectSettles(ok, found)
    \/ ProxyReceive
    \/ UpstreamOk
    \/ \E e \in UpstreamErrors : \E status \in HttpStatuses : UpstreamErr(e, status)
    \/ UpstreamBackoffElapsed
    \/ ClientReceives
    \/ BackendUnreachable

ProxySpec == ProxyInit /\ [][ProxyNext]_vars

-----------------------------------------------------------------------------
(* Client store: trailer cache (useAppStore.ts setTrailer, hooks/useTrailer) *)

\* title ids run from 1 to MaxTrailerId
MaxTrailerId == 125

\* the video id resolveTrailer finds for a title, null (0) when it has none:
\* setCache(movie.id, id || null)
TrailerOf(id) == IF id % 3 = 0 THEN 0 ELSE 1000 + id

\* keys.slice(0, n) of Object.keys(cache): integer keys come in ascending
\* order, so these are the n smallest ids
KeysSlice(cache, n) ==
    {k \in DOMAIN cache : Cardinality({j \in DOMAIN cache : j < k}) < n}

\* setTrailer(id, url): the cache it leaves, { ...newCache, [id]: url } with
\* newCache the cache after toRemove.forEach(k => delete newCache[Number(k)])
\* when it held more than 100 keys, { ...cache, [id]: url } otherwise
SetTrailerCache(cache, id, url) ==
    LET kept == IF Cardinality(DOMAIN cache) > 100
                THEN DOMAIN cache \ KeysSlice(cache, 20)
                ELSE DOMAIN cache
    IN [k \in kept \cup {id} |-> IF k = id THEN url ELSE cache[k]]

SetTrailer(id, url) ==
    /\ trailerCache' = SetTrailerCache(trailerCache, id, url)
    /\ UNCHANGED <<storeVars, srv, rt, px, hoveredMovieId, mounted, pointer,
                   hoverTimeout, isDesktop, myList, listEvent>>

\* the titles whose trailer is resolved next: the first title, or a
\* neighbour of the ids already cached, or a cached title again
NextTitles ==
    IF DOMAIN trailerCache = {} THEN {1, MaxTrailerId \div 2}
    ELSE LET lo == CHOOSE k \in DOMAIN trailerCache :
                       \A j \in DOMAIN trailerCache : k <= j
             hi == CHOOSE k \in DOMAIN trailerCache :
                       \A j \in DOMAIN trailerCache : k >= j
         IN {lo - 1, lo, hi, hi + 1} \cap (1..MaxTrailerId)

TrailerNext == \E id \in NextTitles : SetTrailer(id, TrailerOf(id))

TrailerSpec == StoreInit /\ [][TrailerNext]_vars

-----------------------------------------------------------------------------
(* Properties of the client store (StoreSpec) *)

\* the backend requests a call step added
NewRequests == pending \ lastEvent.before.pending

\* the payload a response body stands for: its array fields, [] elsewhere
ExpectedPayload(body) ==
    [k \in MovieDataKeys |->
        IF body.isNull THEN <<>>
        ELSE IF body.fields[k].isArray THEN body.fields[k].items ELSE <<>>]

CompletePayloads ==
    {emptyMovieData} \cup
    UNION {{ExpectedPayload(b) : b \in Bodies(g)} : g \in 1..nextReq}

\* C1: at most one homepage refresh is in flight at any time, and a
\* fetchMovieData call (forced or not) made while movieDataLoading is true
\* starts no backend request.
C1_AtMostOneInFlight ==
    /\ Cardinality(pending) <= 1
    /\ (lastEvent.op = "call" /\ lastEvent.before.loading) => NewRequests = {}

\* C1 witness: a forced call arrived while a refresh was in flight.
C1_Witness ==
    /\ lastEvent.op = "call"
    /\ lastEvent.force
    /\ lastEvent.before.loading
    /\ Cardinality(pending) = 1

\* C2: a non-forced fetchMovieData call made less than 30 minutes after
\* lastFetched starts no request and leaves the whole cache entry (payload,
\* timestamp, loading flag, error flag) as it was.
C2_IdempotentWithinTTL ==
    (/\ lastEvent.op = "call"
     /\ ~lastEvent.force
     /\ lastEvent.before.fetched # NullTime
     /\ lastEvent.before.at - lastEvent.before.fetched < 30 * 60 * 1000)
    => /\ NewRequests = {}
       /\ Snapshot = lastEvent.before

\* C2 witness: a second non-forced call, on the last millisecond of the TTL
\* window opened by the one successful fetch.
C2_Witness ==
    /\ lastEvent.op = "call"
    /\ ~lastEvent.force
    /\ lastEvent.before.fetched # NullTime
    /\ lastEvent.before.at - lastEvent.before.fetched = 30 * 60 * 1000 - 1
    /\ nextReq = 1

\* C24: a fetchMovieData call made while the entry is fresh (now -
\* lastFetched < 30 minutes) starts a backend request if and only if it is
\* forced and no refresh is in flight, and a forced call made while no
\* refresh is in flight always starts one.
C24_ForceOverridesFreshnessOnly ==
    lastEvent.op = "call"
    => LET b == lastEvent.before
           fresh == b.fetched # NullTime /\ b.at - b.fetched < 30 * 60 * 1000
       IN /\ fresh => (NewRequests # {} <=> (lastEvent.force /\ ~b.loading))
          /\ (lastEvent.force /\ ~b.loading) => NewRequests # {}

\* C24 witness: a forced call on a fresh entry, no refresh in flight, that
\* started the second request.
C24_Witness ==
    /\ lastEvent.op = "call"
    /\ lastEvent.force
    /\ ~lastEvent.before.loading
    /\ lastEvent.before.fetched # NullTime
    /\ lastEvent.before.at - lastEvent.before.fetched < 30 * 60 * 1000
    /\ NewRequests = {2}
    /\ movieDataLoading

\* C27: whenever movieDataLoading is true it is eventually false again,
\* provided the backend request in flight settles (StoreFairSpec).
C27_LoadingEventuallyCleared == movieDataLoading ~> ~movieDataLoading

\* C27 witness: the flag set by a call was cleared by the failure of its
\* request, and the next call started a request of its own.
C27_Witness ==
    /\ lastEvent.op = "call"
    /\ lastEvent.started
    /\ ~lastEvent.before.loading
    /\ lastEvent.before.error # NoError
    /\ nextReq = 2
    /\ pending = {2}

\* C3: a non-forced call at lastFetched = now - TTL - 1ms leaves a refresh in
\* flight and the payload untouched; as long as the refresh runs, readers
\* get the payload the refresh started from.
C3_StaleServedWhileRefreshing ==
    /\ (/\ lastEvent.op = "call"
        /\ ~lastEvent.force
        /\ lastEvent.before.fetched # NullTime
        /\ lastEvent.before.at - lastEvent.before.fetched = 30 * 60 * 1000 + 1)
       => /\ movieDataLoading
          /\ Cardinality(pending) = 1
          /\ useMovieData.data = lastEvent.before.data
    /\ movieDataLoading => useMovieData.data = refreshBase

\* C3 witness: the stale call started the refresh over a non-empty payload.
C3_Witness ==
    /\ lastEvent.op = "call"
    /\ ~lastEvent.force
    /\ lastEvent.before.fetched # NullTime
    /\ lastEvent.before.at - lastEvent.before.fetched = 30 * 60 * 1000 + 1
    /\ ~lastEvent.before.loading
    /\ NewRequests # {}
    /\ movieData["trending"] # <<>>

\* C4: after a failed refresh the store holds the previous payload and
\* timestamp, movieDataError is set, and readers get the previous payload.
C4_FailureKeepsPayload ==
    lastEvent.op = "failure"
    => /\ movieData = lastEvent.before.data
       /\ lastFetched = lastEvent.before.fetched
       /\ movieDataError = lastEvent.err
       /\ movieDataError # NoError
       /\ useMovieData.data = lastEvent.before.data

\* C4 witness: a refresh over a fetched, non-empty payload failed.
C4_Witness ==
    /\ lastEvent.op = "failure"
    /\ lastEvent.before.fetched # NullTime
    /\ lastEvent.before.data["trending"] # <<>>
    /\ movieData["trending"] # <<>>

\* the entry had never been fetched or was at least 30 minutes old
NotFreshAt(snap) ==
    snap.fetched = NullTime \/ snap.at - snap.fetched >= 30 * 60 * 1000

\* C28: the failure of a request leaves lastFetched and movieData as they
\* were, so an entry that was not fresh is not fresh afterwards; and a
\* non-forced call that finds the error of a failed first load or failed
\* stale refresh (error set, nothing in flight, entry not fresh) starts a
\* new backend request.
C28_FailureNotMarkedFresh ==
    /\ lastEvent.op = "failure"
       => /\ lastFetched = lastEvent.before.fetched
          /\ movieData = lastEvent.before.data
          /\ NotFreshAt(lastEvent.before) => NotFreshAt(Snapshot)
    /\ (/\ lastEvent.op = "call"
        /\ ~lastEvent.force
        /\ lastEvent.before.error # NoError
        /\ ~lastEvent.before.loading
        /\ NotFreshAt(lastEvent.before))
       => /\ NewRequests # {}
          /\ movieDataLoading

\* C28 witness: the first load failed and the next call, not forced, has
\* started the second request.
C28_Witness ==
    /\ lastEvent.op = "call"
    /\ ~lastEvent.force
    /\ lastEvent.before.error # NoError
    /\ lastEvent.before.fetched = NullTime
    /\ NewRequests = {2}

\* C5: movieData is always the empty payload or the complete payload of one
\* response, and the step that receives a response sets payload, timestamp,
\* loading flag and error flag together.
C5_NeverTorn ==
    /\ movieData \in CompletePayloads
    /\ lastEvent.op = "success"
       => /\ movieData = ExpectedPayload(lastEvent.body)
          /\ lastFetched = now
          /\ ~movieDataLoading
          /\ movieDataError = NoError

\* C5 witness: a response with missing fields replaced a full payload of an
\* earlier refresh.
C5_Witness ==
    /\ lastEvent.op = "success"
    /\ lastEvent.before.data["trending"] # <<>>
    /\ lastEvent.before.data["trending"] # <<MockTag>>
    /\ lastEvent.body = OddBody(lastEvent.req)
    /\ lastEvent.before.data["action"] # movieData["action"]

\* the payload holds at least one item
NonEmpty(data) == \E k \in MovieDataKeys : data[k] # <<>>

\* C18: the home page shows the error screen only when the store holds no
\* data at all, and after a failed refresh over a previously fetched
\* non-empty payload it still renders the rows.
C18_StalePreferredOverError ==
    /\ Home = "ContentErrorPage" => ~NonEmpty(movieData)
    /\ (/\ lastEvent.op = "failure"
        /\ lastEvent.before.fetched # NullTime
        /\ NonEmpty(lastEvent.before.data))
       => Home = "rows"

\* C21: right after a non-forced call started the refresh of a stale,
\* non-empty cache, the page renders its rows and every row shows the cards
\* of the previous payload, not the loading skeletons.
C21_NoLoadingFlicker ==
    (/\ lastEvent.op = "call"
     /\ lastEvent.started
     /\ ~lastEvent.force
     /\ lastEvent.before.fetched # NullTime
     /\ lastEvent.before.at - lastEvent.before.fetched >= 30 * 60 * 1000
     /\ NonEmpty(lastEvent.before.data))
    => /\ Home = "rows"
       /\ \A k \in HomeRowKeys :
             HomeRows[k] = [skeleton |-> FALSE, cards |-> lastEvent.before.data[k]]

\* C20: in every state where no payload has been fetched yet (lastFetched
\* is null), the consumer reads movieDataLoading = TRUE.
C20_NoSilentEmptyPayload ==
    lastFetched = NullTime => useMovieData.loading

-----------------------------------------------------------------------------
(* Properties of the backend handlers (ServerSpec) *)

\* the list fan-out of the handler has returned (Promise.all resolved)
FannedOut == srv.handler # "popular" /\ srv.phase \in {"details", "done"}

Failed(k) == srv.lists[k].st = "failed"

\* the positions of the fetched lists
Positions == {<<k, i>> \in (DOMAIN srv.listsMap) \X (1..MaxListLen + 1) :
                 i <= Len(srv.listsMap[k])}

RequestsFor(id) == {j \in 1..Len(srv.issued) : srv.issued[j].id = id}

\* C6: the output of the list fan-out holds every key of the category
\* table, a key whose request failed holds the empty list, and the response
\* carries every key as well.
C6_EveryKeyPresent ==
    FannedOut
    => /\ DOMAIN srv.listsMap = RequestKeys(srv.handler)
       /\ \A k \in RequestKeys(srv.handler) : Failed(k) => srv.listsMap[k] = <<>>
       /\ srv.phase = "done"
          => /\ srv.response.status = 200
             /\ RequestKeys(srv.handler) \subseteq DOMAIN srv.response.body
             /\ \A k \in RequestKeys(srv.handler) :
                   Failed(k) => srv.response.body[k] = <<>>

\* C6 witness: every list request of the table failed and the response was sent.
C6_Witness ==
    /\ FannedOut
    /\ srv.phase = "done"
    /\ \A k \in RequestKeys(srv.handler) : Failed(k)
    /\ DOMAIN srv.listsMap = RequestKeys(srv.handler)

\* C7: a failed list request never fails the aggregation: no error response
\* is sent, the fan-out result holds for every key the items fetched for it
\* and [] for a failed key, and the response is a 200 with the failed bucket
\* empty and the other buckets at their fetched length.
C7_BucketFailureAbsorbed ==
    (srv.handler # "popular" /\ \E k \in DOMAIN srv.lists : Failed(k))
    => /\ srv.response.status # 500
       /\ FannedOut
          => \A k \in DOMAIN srv.lists :
                /\ k \in DOMAIN srv.listsMap
                /\ srv.listsMap[k] = IF Failed(k) THEN <<>> ELSE srv.lists[k].body
       /\ srv.phase = "done"
          => /\ srv.response.status = 200
             /\ \A k \in DOMAIN srv.lists :
                   /\ k \in DOMAIN srv.response.body
                   /\ Len(srv.response.body[k]) = Len(srv.listsMap[k])

\* C7 witness: {a: ok with items, b: failed} answered with a's items and b empty.
C7_Witness ==
    /\ srv.handler # "popular"
    /\ srv.phase = "done"
    /\ srv.response.status = 200
    /\ \E a, b \in DOMAIN srv.lists :
          /\ srv.lists[a].st = "ok"
          /\ srv.lists[a].body # <<>>
          /\ Failed(b)
          /\ srv.listsMap[a] = srv.lists[a].body
          /\ srv.response.body[a] # <<>>
          /\ srv.response.body[b] = <<>>

\* C8: when one of the four list requests of the New & Popular handler
\* fails, the handler sends no error response: it answers 200 with the
\* failed bucket empty.
C8_PopularBucketFailureAbsorbed ==
    (srv.handler = "popular" /\ \E k \in DOMAIN srv.lists : Failed(k))
    => /\ srv.response.status # 500
       /\ srv.phase = "done"
          => /\ srv.response.status = 200
             /\ \A k \in DOMAIN srv.lists :
                   Failed(k) => srv.response.body[PopularBucket(k)] = <<>>

C10_KeyedByIdAndKind ==
    (srv.handler = "homepage" /\ srv.phase \in {"details", "done"})
    => \A p \in Positions :
          LET item == srv.listsMap[p[1]][p[2]]
          IN /\ \E j \in 1..Len(srv.issued) :
                   srv.issued[j] = [id |-> item.id, type |-> InferType(item)]
             /\ srv.phase = "done"
                => srv.response.body[p[1]][p[2]]
                      \in {item, DetailRecord(item.id, InferType(item))}

\* the detail request issued for id among the requests wanted
DetailFor(wanted, id) == CHOOSE j \in 1..Len(wanted) : wanted[j].id = id

\* what best-effort enrichment makes of list `items`, given the detail
\* requests `wanted` as they settled in `details`: at every position, an item
\* whose request failed is the item itself, and an item whose request (for
\* its own kind) succeeded is the record the request returned
BestEffort(items, wanted, details, out) ==
    /\ Len(out) = Len(items)
    /\ \A i \in 1..Len(items) :
          LET j == DetailFor(wanted, items[i].id)
          IN /\ \E x \in 1..Len(wanted) : wanted[x].id = items[i].id
             /\ details[j].st = "failed" => out[i] = items[i]
             /\ (details[j].st = "ok" /\ wanted[j].type = InferType(items[i]))
                => /\ out[i] = details[j].body
                   /\ out[i].detail
                   /\ out[i].id = items[i].id

SameShape(items, out) ==
    /\ Len(out) = Len(items)
    /\ \A i \in 1..Len(items) : out[i].id = items[i].id

\* C29: in the homepage response every bucket of the list fan-out has the
\* length of the fetched list and, position by position, the ids of the
\* fetched items, and so has the list every enrichWithDetails call returns,
\* whichever detail requests succeeded or failed.
C29_HydrationKeepsShape ==
    /\ (srv.handler = "homepage" /\ srv.phase = "done")
       => /\ DOMAIN srv.listsMap = RequestKeys("homepage")
          /\ \A k \in DOMAIN srv.listsMap :
                SameShape(srv.listsMap[k], srv.response.body[k])
    /\ srv.phase # "idle"
       => SameShape(srv.lastEnrich.items, srv.lastEnrich.out)

\* C29 witness: a homepage bucket of two titles, the detail request of the
\* first failed and that of the second succeeded, and another list of the
\* batch failed.
C29_Witness ==
    /\ srv.handler = "homepage"
    /\ srv.phase = "done"
    /\ \E q \in DOMAIN srv.lists : srv.lists[q].st = "failed"
    /\ \E k \in DOMAIN srv.listsMap :
          /\ Len(srv.listsMap[k]) = 2
          /\ srv.listsMap[k][1].id # srv.listsMap[k][2].id
          /\ srv.details[DetailFor(srv.wanted, srv.listsMap[k][1].id)].st = "failed"
          /\ srv.details[DetailFor(srv.wanted, srv.listsMap[k][2].id)].st = "ok"
          /\ Len(srv.response.body[k]) = 2
          /\ srv.response.body[k][2].detail

\* every list request of the handler failed, none of them with an error
\* carrying an upstream response
TotalOutage ==
    /\ \A k \in DOMAIN srv.lists : Failed(k)
    /\ ~srv.httpRejected

\* C16: when every list request of the homepage handler failed with a
\* network error, the response is a 200 carrying the fixed mock payload.
C16_TotalOutageFallback ==
    (srv.handler = "homepage" /\ srv.phase = "done" /\ TotalOutage)
    => /\ srv.response.status = 200
       /\ srv.response.body = MockResult

\* C23: in the homepage aggregation no detail request is issued while a list
\* request of the batch is still unsettled, and no response is sent while a
\* list request or a detail request is still unsettled, in whatever order
\* the requests complete.
C23_FanOutIsJoin ==
    (srv.phase # "idle" /\ srv.handler = "homepage")
    => /\ (\E k \in DOMAIN srv.lists : srv.lists[k].st \notin {"ok", "failed"})
          => srv.issued = <<>> /\ srv.details = <<>>
       /\ srv.response # NoResponse
          => /\ \A k \in DOMAIN srv.lists : srv.lists[k].st \in {"ok", "failed"}
             /\ \A i \in 1..Len(srv.details) :
                   srv.details[i].st \in {"ok", "failed"}

\* a homepage response sent after a batch in which one list failed and two
\* detail requests ended differently
C23_Witness ==
    /\ srv.phase = "done" /\ srv.handler = "homepage"
    /\ srv.response.status = 200
    /\ \E k \in DOMAIN srv.lists : srv.lists[k].st = "failed"
    /\ Len(srv.issued) = 2
    /\ srv.details[1].st = "failed"
    /\ srv.details[2].st = "ok"

-----------------------------------------------------------------------------
(* Properties of the retry wrapper (RetrySpec) *)

\* NetworkError: timeout, DNS failure, connection refused
NetworkErrors == {ETimeout, ERefused}

RetrySettled == rt.st \in {"returned", "thrown"}

\* the request function throws a network error twice and then succeeds
ThrowsTwiceThenSucceeds ==
    /\ Len(rt.fn) = 3
    /\ ~rt.fn[1].ok /\ rt.fn[1].err \in NetworkErrors
    /\ ~rt.fn[2].ok /\ rt.fn[2].err \in NetworkErrors
    /\ rt.fn[3].ok

\* C12: with maxRetries = 3, a call around a function that throws a network
\* error twice and then succeeds never throws, and ends returning the
\* result of the third invocation after exactly 3 invocations.
C12_RetrySuccessPath ==
    (rt.st # "idle" /\ rt.maxRetries = 3 /\ ThrowsTwiceThenSucceeds)
    => /\ rt.st # "thrown"
       /\ rt.invocations <= 3
       /\ RetrySettled => /\ rt.st = "returned"
                           /\ rt.result = 3
                           /\ rt.invocations = 3

\* C12 witness: refused, timed out, then resolved; the call returned.
C12_Witness ==
    /\ rt.st = "returned"
    /\ rt.maxRetries = 3
    /\ rt.fn = <<Rejects(ERefused), Rejects(ETimeout), Resolves>>
    /\ rt.invocations = 3

\* C13: when the function throws an error carrying an upstream response,
\* the call never waits for a retry: it throws that error after exactly 1
\* invocation.
C13_HttpErrorNotRetried ==
    (rt.st # "idle" /\ ~rt.fn[1].ok /\ rt.fn[1].err.hasResponse)
    => /\ rt.st # "waiting"
       /\ rt.invocations = 1
       /\ RetrySettled => /\ rt.st = "thrown"
                           /\ rt.lastError = rt.fn[1].err
                           /\ rt.delays = <<>>

\* C13 witness: the first invocation failed with an HTTP error and the call
\* threw it.
C13_Witness ==
    /\ rt.st = "thrown"
    /\ rt.fn[1] = Rejects(EHttp)
    /\ rt.lastError = EHttp
    /\ rt.invocations = 1

\* C14: when the function throws an exception that is neither a network
\* error nor an error with a response, the call never waits for a retry:
\* it throws that exception after 1 invocation.
C14_OnlyNetworkErrorsRetried ==
    (/\ rt.st # "idle"
     /\ ~rt.fn[1].ok
     /\ rt.fn[1].err \notin NetworkErrors
     /\ ~rt.fn[1].err.hasResponse)
    => /\ rt.st # "waiting"
       /\ rt.invocations = 1
       /\ RetrySettled => rt.st = "thrown" /\ rt.lastError = rt.fn[1].err

\* the request function throws a network error at every invocation
AlwaysThrowsNetworkError ==
    \A i \in 1..Len(rt.fn) : ~rt.fn[i].ok /\ rt.fn[i].err \in NetworkErrors

\* C15 as stated: around a function that always throws a network error, the
\* number of invocations never exceeds the configured maximum (maxRetries),
\* and the call ends throwing the last error it caught.
C15_AttemptCeiling ==
    (rt.st # "idle" /\ AlwaysThrowsNetworkError)
    => /\ rt.invocations <= rt.maxRetries
       /\ RetrySettled => /\ rt.st = "thrown"
                           /\ rt.lastError = rt.caught[Len(rt.caught)]

\* C15 amended: around a function that always throws a network error, the
\* number of invocations never exceeds maxRetries + 1 (the first attempt and
\* maxRetries retries); the call ends after exactly maxRetries + 1
\* invocations and maxRetries waits, throwing the error of the last
\* invocation.
C15_RetryCeiling ==
    (rt.st # "idle" /\ AlwaysThrowsNetworkError)
    => /\ rt.invocations <= rt.maxRetries + 1
       /\ rt.st # "returned"
       /\ RetrySettled => /\ rt.st = "thrown"
                           /\ rt.invocations = rt.maxRetries + 1
                           /\ Len(rt.delays) = rt.maxRetries
                           /\ Len(rt.caught) = rt.maxRetries + 1
                           /\ rt.lastError = OutcomeOf(rt.fn, rt.invocations).err
                           /\ rt.lastError \in NetworkErrors

\* C15 witness: refused, timed out, timed out ever after; with the default
\* maxRetries the call threw the timeout after its fourth invocation.
C15_Witness ==
    /\ rt.st = "thrown"
    /\ rt.maxRetries = DefaultMaxRetries
    /\ rt.fn = <<Rejects(ERefused), Rejects(ETimeout)>>
    /\ rt.invocations = DefaultMaxRetries + 1
    /\ rt.lastError = ETimeout

\* the attempts of the call so far, counted from 0, and those in flight
Attempts == 0..(Len(rt.startedAt) - 1)
InFlight == Len(rt.startedAt) - Len(rt.settledAt)

\* attempt k + 1 started no earlier than baseDelay * 2^k after attempt k
\* had settled, and attempt k had settled with a rejection
StartedAfterBackoff(k) ==
    /\ Len(rt.settledAt) >= k + 1
    /\ Len(rt.caught) >= k + 1
    /\ rt.startedAt[k + 2] >= rt.settledAt[k + 1] + DefaultBaseDelay * (2 ^ k)

\* the sequencing and timing of the attempts alone: one attempt in flight at
\* most, each later attempt after the failure of the one before and the
\* exponential wait
SequentialBackoff ==
    rt.st # "idle"
    => /\ InFlight = (IF rt.st = "invoking" THEN 1 ELSE 0)
       /\ \A k \in Attempts : (k + 1) \in Attempts => StartedAfterBackoff(k)

\* C22: attempt k+1 (k from 0) of one wrapped request starts only after
\* attempt k has failed with a network error (a timeout or a connection
\* failure) and a wait of baseDelay * 2^k has elapsed, and two attempts of
\* the same wrapped request are never in flight at once.
C22_SequentialExponentialBackoff ==
    /\ SequentialBackoff
    /\ rt.st # "idle"
       => \A k \in Attempts :
             (k + 1) \in Attempts => rt.caught[k + 1] \in NetworkErrors

-----------------------------------------------------------------------------
(* Hover state of the cards (components/MovieCard.tsx, useAppStore.ts) *)

\* the page holds at most NumCards cards
NumCards == 4

\* movie.id of a card: cards 1 and 2 show the same title in two rows, every
\* other card a title of its own
CardMovie(c) == IF c = 1 THEN 1 ELSE c - 1

\* const isHovered = hoveredMovieId === movie.id
IsHovered(c) == c \in mounted /\ hoveredMovieId = CardMovie(c)

HoverInit ==
    /\ srv = ServerIdle
    /\ rt = RetryIdle
    /\ px = ClientIdle
    /\ StoreFresh
    /\ isDesktop \in BOOLEAN

\* a row renders card c
Mount(c) ==
    /\ c \notin mounted
    /\ mounted' = mounted \cup {c}
    /\ UNCHANGED <<hoveredMovieId, pointer, hoverTimeout, isDesktop>>
    /\ UNCHANGED <<storeVars, srv, rt, px, trailerCache, myList, listEvent>>

\* card c leaves the page: the effect cleanup clears its timer; no
\* mouseleave is delivered to a removed element
Unmount(c) ==
    /\ c \in mounted
    /\ mounted' = mounted \ {c}
    /\ hoverTimeout' = hoverTimeout \ {c}
    /\ pointer' = IF pointer = c THEN 0 ELSE pointer
    /\ UNCHANGED <<hoveredMovieId, isDesktop>>
    /\ UNCHANGED <<storeVars, srv, rt, px, trailerCache, myList, listEvent>>

\* handleMouseEnter of card c
MouseEnter(c) ==
    /\ c \in mounted
    /\ pointer = 0
    /\ pointer' = c
    /\ hoverTimeout' = IF isDesktop THEN hoverTimeout \cup {c} ELSE hoverTimeout
    /\ UNCHANGED <<hoveredMovieId, mounted, isDesktop>>
    /\ UNCHANGED <<storeVars, srv, rt, px, trailerCache, myList, listEvent>>

\* handleMouseLeave of card c
MouseLeave(c) ==
    /\ pointer = c
    /\ pointer' = 0
    /\ hoverTimeout' = IF isDesktop THEN hoverTimeout \ {c} ELSE hoverTimeout
    /\ hoveredMovieId' = IF isDesktop THEN NullId ELSE hoveredMovieId
    /\ UNCHANGED <<mounted, isDesktop>>
    /\ UNCHANGED <<storeVars, srv, rt, px, trailerCache, myList, listEvent>>

\* the 400 ms timer of card c fired: setHoveredMovie(movie.id)
HoverTimer(c) ==
    /\ c \in hoverTimeout
    /\ hoverTimeout' = hoverTimeout \ {c}
    /\ hoveredMovieId' = CardMovie(c)
    /\ UNCHANGED <<mounted, pointer, isDesktop>>
    /\ UNCHANGED <<storeVars, srv, rt, px, trailerCache, myList, listEvent>>

HoverNext ==
    \/ \E c \in 1..NumCards : Mount(c)
    \/ \E c \in 1..NumCards : Unmount(c)
    \/ \E c \in 1..NumCards : MouseEnter(c)
    \/ \E c \in 1..NumCards : MouseLeave(c)
    \/ \E c \in 1..NumCards : HoverTimer(c)

HoverSpec == HoverInit /\ [][HoverNext]_vars

-----------------------------------------------------------------------------
(* Client store: My List (useAppStore.ts addToList, removeFromList, isInList) *)

\* the titles a card or the modal can hand to addToList: ids 1..NumTitles,
\* a movie and a show may share an id
NumTitles == 3

\* Array.prototype.find: the first entry the test accepts, else undefined
Undefined == [id |-> 0, kind |-> "undefined"]
RECURSIVE FindById(_, _)
FindById(list, id) ==
    IF list = <<>> THEN Undefined
    ELSE IF Head(list).id = id THEN Head(list)
    ELSE FindById(Tail(list), id)

\* isInList(movieId): !!find(..), an entry is an object and so truthy
IsInList(list, movieId) == FindById(list, movieId) # Undefined

\* addToList(movie): the list it leaves
AddedUnchecked(list, movie) == Append(list, movie)
Added(list, movie) ==
    IF FindById(list, movie.id) = Undefined THEN Append(list, movie) ELSE list

\* removeFromList(movieId): myList.filter((m) => m.id !== movieId)
Removed(list, movieId) == SelectSeq(list, LAMBDA m : m.id # movieId)

AddToList(movie) ==
    /\ myList' = Added(myList, movie)
    /\ listEvent' = [op |-> "add", movie |-> movie, before |-> myList]
    /\ UNCHANGED <<storeVars, srv, rt, px, trailerCache, hoveredMovieId, mounted, pointer,
                   hoverTimeout, isDesktop>>

RemoveFromList(movieId) ==
    /\ myList' = Removed(myList, movieId)
    /\ listEvent' = [op |-> "remove", id |-> movieId, before |-> myList]
    /\ UNCHANGED <<storeVars, srv, rt, px, trailerCache, hoveredMovieId, mounted, pointer,
                   hoverTimeout, isDesktop>>

ListNext ==
    \/ \E i \in 1..NumTitles, k \in Kinds : AddToList([id |-> i, kind |-> k])
    \/ \E movieId \in 1..NumTitles : RemoveFromList(movieId)

ListSpec == StoreInit /\ [][ListNext]_vars

-----------------------------------------------------------------------------
(* Properties of the trailer cache (TrailerSpec) *)

\* C25: trailerCache never holds more than 100 entries.
C25_TrailerCacheLimit == Cardinality(DOMAIN trailerCache) <= 100

\* what the code keeps: never more than 101 entries
TrailerCacheAtMost101 == Cardinality(DOMAIN trailerCache) <= 101

-----------------------------------------------------------------------------
(* Properties of My List (ListSpec) *)

\* the positions of `list` holding id
PositionsOf(list, id) == {i \in 1..Len(list) : list[i].id = id}

\* `sub` is `list` with exactly the entries of id taken out: the entries
\* with another id, one for one, in the order they had
TakenOut(list, id, sub) ==
    /\ Len(sub) = Len(list) - Cardinality(PositionsOf(list, id))
    /\ \A i \in 1..Len(list) :
          list[i].id # id
          => sub[i - Cardinality({j \in PositionsOf(list, id) : j < i})] = list[i]

\* C30: myList holds each id at most once; isInList(id) is true exactly when
\* an entry with that id is present; and removeFromList(id) leaves every
\* entry with another id in place and in order (and none with that id).
C30_MyListNoDuplicates ==
    /\ \A i, j \in 1..Len(myList) : myList[i].id = myList[j].id => i = j
    /\ \A id \in 1..NumTitles :
          IsInList(myList, id) <=> PositionsOf(myList, id) # {}
    /\ listEvent.op = "remove" => TakenOut(listEvent.before, listEvent.id, myList)

\* C30 witness: a title was added a second time (as the show of the same
\* id) to a list of two, and the list is as it was.
C30_Witness ==
    /\ listEvent.op = "add"
    /\ Len(listEvent.before) = 2
    /\ PositionsOf(listEvent.before, listEvent.movie.id) = {1}
    /\ listEvent.before[1].kind # listEvent.movie.kind
    /\ myList = listEvent.before

\* a removal from the middle of a list of three
RemovedFromTheMiddle ==
    /\ listEvent.op = "remove"
    /\ Len(listEvent.before) = 3
    /\ listEvent.before[2].id = listEvent.id
    /\ Len(myList) = 2

-----------------------------------------------------------------------------
(* Properties of the hover state (HoverSpec) *)

\* C26: after any sequence of mouse-enter, mouse-leave and hover-timer
\* events over the rendered cards, at most one MovieCard is hovered.
C26_OneCardHovered ==
    Cardinality({c \in 1..NumCards : IsHovered(c)}) <= 1

\* what the store does keep: the hovered cards all show one title
OneTitleHovered ==
    \A c, d \in 1..NumCards : (IsHovered(c) /\ IsHovered(d)) => CardMovie(c) = CardMovie(d)

-----------------------------------------------------------------------------
(* Properties of the request path browser -> passthrough -> TMDB (ProxySpec) *)

MockBodies == {"MOCK_MOVIES", "MOCK_MOVIES shuffled", "MOCK_TV_DETAILS",
               "mockMovie"}

\* C17: when the upstream answered the passthrough's request with an HTTP
\* error response, the backend replies with the upstream status and no mock
\* data, and the caller of the client request layer gets that error status
\* and no mock data either.
C17_MockOnlyForNetworkFailures ==
    (px.phase \in {"responded", "done"} /\ px.upstreamErr.hasResponse)
    => /\ px.response.status = px.upstreamStatus
       /\ px.response.body \notin MockBodies
       /\ px.phase = "done"
          => /\ px.result.status = px.upstreamStatus
             /\ px.result.body \notin MockBodies

\* the credential is among the parameters or headers of a request
CarriesKey(request) ==
    "api_key" \in request.params \/ "Authorization" \in request.headers

\* C19: no request issued by the browser code carries the TMDB credential,
\* and the passthrough forwards exactly the client's query parameters, the
\* credential not among them.
C19_CredentialServerSideOnly ==
    px.phase # "off"
    => /\ ~CarriesKey(px.browserReq)
       /\ px.upstreamReq.to = "tmdb"
          => /\ px.upstreamReq.params = px.browserReq.params
             /\ "api_key" \notin px.upstreamReq.params

=============================================================================
